---- MODULE Spec2Model ----
(***************************************************************************)
(* A model of flingo's application class (src/flingo/__main__.py):         *)
(* option parsing, the phases of FlingoApp.main, the model callbacks and   *)
(* the statistics callback.                                                *)
(*                                                                         *)
(* A clingo symbol is a record: a Function has a name and arguments, a     *)
(* Number has a number.  str() of a symbol is computed as a string.  A     *)
(* printed line is kept as the list handed to " ".join together with the   *)
(* joined text.                                                            *)
(***************************************************************************)
EXTENDS Integers, Sequences, FiniteSets, TLC

VARIABLES
    config,        \* AppConfig: print_aux, print_trans, min_int, max_int, defined
    stats,         \* Statistic: the five fields
    pc,            \* position of the run
    optName,       \* value of the last defined-predicate option parsed
    optResult,     \* what the option parser did with it
    input,         \* the statements parse_files delivers, in source order
    idx,           \* number of statements delivered so far
    bld,           \* statements added to the ProgramBuilder, in order
    rules_to_add,  \* HeadBodyTransformer.rules_to_add
    now,           \* wall clock
    start,         \* local variable start of main
    phases,        \* history: the phases main has entered, in order
    akku,          \* the "flingo" section of the statistics, once written
    cur,           \* the model last reported to on_model, if any
    printed,       \* lines print_model printed for the model last reported
    crashed,       \* print_model raised
    seen           \* history: per-valuation observations of the run

vars == <<config, stats, pc, optName, optResult, input, idx, bld, rules_to_add,
          now, start, phases, akku, cur, printed, crashed, seen>>

----------------------------------------------------------------------------
(* Program constants *)

MAX_INT == 1073741823
MIN_INT == -1073741823
CSP == "__csp"
DEF_ == "__def"
AUX == "__aux"

(* Bounds *)
MaxStatements == 2
MaxClock == 2
MaxAdded == 1

----------------------------------------------------------------------------
(* Symbols *)

Function(name, arguments) ==
    [type |-> "Function", name |-> name, arguments |-> arguments, number |-> 0]

Number(n) ==
    [type |-> "Number", name |-> "", arguments |-> <<>>, number |-> n]

\* what indexing past the end of an argument list yields
IndexError == [type |-> "IndexError", name |-> "", arguments |-> <<>>, number |-> 0]

\* arguments[i] with Python's 0-based index
Arg(sym, i) ==
    IF i + 1 <= Len(sym.arguments) THEN sym.arguments[i + 1] ELSE IndexError

RECURSIVE Join(_, _)
Join(words, sep) ==
    IF words = <<>> THEN ""
    ELSE IF Len(words) = 1 THEN words[1]
    ELSE words[1] \o sep \o Join(Tail(words), sep)

RECURSIVE Str(_)
Str(sym) ==
    IF sym.type = "Number" THEN ToString(sym.number)
    ELSE IF sym.arguments = <<>> THEN sym.name
    ELSE sym.name \o "(" \o Join([i \in 1..Len(sym.arguments) |-> Str(sym.arguments[i])], ",") \o ")"

----------------------------------------------------------------------------
(* Three-valued evaluation of a Python condition: "T", "F", or "E" when     *)
(* evaluating it raises.  `and` evaluates its right operand only when the  *)
(* left one is true.                                                       *)

B3(b) == IF b THEN "T" ELSE "F"

And3(x, y) == IF x = "T" THEN y ELSE x

Not3(x) == IF x = "T" THEN "F" ELSE IF x = "F" THEN "T" ELSE "E"

\* sym.name == name
NameIs(sym, name) == IF sym = IndexError THEN "E" ELSE B3(sym.name = name)

\* mutant of ContainsDefined: the atom is built without its argument
ContainsDefined_NoArgument(model, cfg, sym) ==
    IF sym = IndexError THEN "E" ELSE B3(Function(cfg.defined, <<>>) \in model.atoms)

\* model.contains(clingo.Function(config.defined, [sym]))
ContainsDefined(model, cfg, sym) ==
    IF sym = IndexError THEN "E" ELSE B3(Function(cfg.defined, <<sym>>) \in model.atoms)

\* mutant of IsDefinedMarker: the number of arguments is not looked at
IsDefinedMarker_NameOnly(cfg, atom) ==
    atom.name = cfg.defined

\* atom.name == self.config.defined and len(atom.arguments) == 1
IsDefinedMarker(cfg, atom) ==
    atom.name = cfg.defined /\ Len(atom.arguments) = 1

\* "val(" + str(arguments[0]) + "," + str(arguments[1]) + ")"
ValEntry(assignment) ==
    IF Arg(assignment, 0) = IndexError \/ Arg(assignment, 1) = IndexError
    THEN "E"
    ELSE "val(" \o Str(Arg(assignment, 0)) \o "," \o Str(Arg(assignment, 1)) \o ")"

\* mutants of VisibleCond: the auxiliary test, or the arity test, left out
VisibleCond_NoAuxCheck(model, cfg, assignment) ==
    And3(B3(assignment.name = CSP),
    And3(B3(Len(assignment.arguments) = 2),
         ContainsDefined(model, cfg, Arg(assignment, 0))))

VisibleCond_NoArityCheck(model, cfg, assignment) ==
    And3(B3(assignment.name = CSP),
    And3(ContainsDefined(model, cfg, Arg(assignment, 0)),
         Not3(NameIs(Arg(assignment, 0), AUX))))

\* the condition of the comprehension building `valuation`
VisibleCond(model, cfg, assignment) ==
    And3(B3(assignment.name = CSP),
    And3(B3(Len(assignment.arguments) = 2),
    And3(ContainsDefined(model, cfg, Arg(assignment, 0)),
         Not3(NameIs(Arg(assignment, 0), AUX)))))

\* mutant of AuxCond: the auxiliary test left out
AuxCond_NoAuxCheck(model, cfg, assignment) ==
    And3(B3(assignment.name = CSP), B3(Len(assignment.arguments) = 2))

\* the condition of the comprehension building `auxvars`
AuxCond(model, cfg, assignment) ==
    And3(B3(assignment.name = CSP),
    And3(B3(Len(assignment.arguments) = 2),
         NameIs(Arg(assignment, 0), AUX)))

\* [expr for x in xs if cond], given each element's condition and expression
\* as already evaluated: the items kept, and whether building the list raised
RECURSIVE Comprehend(_, _)
Comprehend(conds, exprs) ==
    IF conds = <<>> THEN [raised |-> FALSE, items |-> <<>>]
    ELSE LET c == Head(conds)
             e == Head(exprs)
             rest == Comprehend(Tail(conds), Tail(exprs))
         IN  IF c = "E" \/ (c = "T" /\ e = "E") THEN [raised |-> TRUE, items |-> <<>>]
             ELSE IF rest.raised THEN rest
             ELSE IF c = "T" THEN [raised |-> FALSE, items |-> <<e>> \o rest.items]
             ELSE rest

\* print(" ".join(words))
Line(words) == [words |-> words, text |-> Join(words, " ")]

\* the list `shown` before it is extended
ShownList(model, cfg) ==
    Comprehend([i \in 1..Len(model.shown) |-> B3(~IsDefinedMarker(cfg, model.shown[i]))],
               [i \in 1..Len(model.shown) |-> Str(model.shown[i])])

\* the list `valuation`
ValuationList(model, cfg) ==
    Comprehend([i \in 1..Len(model.theory) |-> VisibleCond(model, cfg, model.theory[i])],
               [i \in 1..Len(model.theory) |-> ValEntry(model.theory[i])])

\* the list `defs` before it is extended
DefsList(model, cfg) ==
    Comprehend([i \in 1..Len(model.shown) |-> B3(IsDefinedMarker(cfg, model.shown[i]))],
               [i \in 1..Len(model.shown) |-> Str(model.shown[i])])

\* the list `auxvars`
AuxvarsList(model, cfg) ==
    Comprehend([i \in 1..Len(model.theory) |-> AuxCond(model, cfg, model.theory[i])],
               [i \in 1..Len(model.theory) |-> ValEntry(model.theory[i])])

\* print_model: the lines it prints and whether it raised
PrintModelResult(model, cfg) ==
    LET shown == ShownList(model, cfg)
        valuation == ValuationList(model, cfg)
    IN  IF shown.raised \/ valuation.raised
        THEN [lines |-> <<>>, raised |-> TRUE]
        ELSE LET first == <<Line(shown.items \o valuation.items)>>
             IN  IF ~cfg.print_aux
                 THEN [lines |-> first, raised |-> FALSE]
                 ELSE LET defs == DefsList(model, cfg)
                          auxvars == AuxvarsList(model, cfg)
                      IN  IF defs.raised \/ auxvars.raised
                          THEN [lines |-> first, raised |-> TRUE]
                          ELSE [lines |-> first \o <<Line(defs.items \o auxvars.items)>>,
                                raised |-> FALSE]

----------------------------------------------------------------------------
(* The defined-predicate option *)

LowerChars ==
    {"a", "b", "c", "d", "e", "f", "g", "h", "i", "j", "k", "l", "m",
     "n", "o", "p", "q", "r", "s", "t", "u", "v", "w", "x", "y", "z"}

\* name[0].islower()
FirstIsLower(name) ==
    IF name = <<>> THEN "IndexError" ELSE B3(name[1] \in LowerChars)

\* name.contains(pattern): str has no attribute `contains`
StrContains(name, pattern) == "AttributeError"

\* _parse_defined_predicate: what the call does ("T"/"F" returned, or the
\* exception raised) and the value of config.defined after it
ParseDefinedPredicate(name, cfg) ==
    LET c == And3(FirstIsLower(name), StrContains(name, "[a-zA-Z0-9]+"))
    IN  [result |-> c,
         config |-> IF c = "T" THEN [cfg EXCEPT !.defined = Join(name, "")] ELSE cfg]

----------------------------------------------------------------------------
(* The rewriter (flingo.parsing.HeadBodyTransformer) *)

Rule(location, head, body) ==
    [type |-> "Rule", location |-> location, head |-> head, body |-> body]

\* theory atoms in the head that assign a constraint variable
AssignHeads == {"&fsum{x}=1", "&fsum{y}=2"}

AssignedVar(head) == IF head = "&fsum{x}=1" THEN "x" ELSE "y"

\* visit(stm): the rewritten statement
Visit(stm) ==
    IF stm.head \in AssignHeads
    THEN [stm EXCEPT !.head = "__wrap(" \o stm.head \o ")"]
    ELSE stm

\* the entries visit(stm) appends to rules_to_add
Synthesized(stm) ==
    IF stm.head \in AssignHeads
    THEN << <<"defined(" \o AssignedVar(stm.head) \o ")", stm.body>> >>
    ELSE <<>>

----------------------------------------------------------------------------
(* Inputs *)

Names == { <<"o", "k", "_", "n", "a", "m", "e">>, <<"a", "1">>, <<"B", "a", "d">>,
           <<>>, <<"1", "x">>, <<"x">>, <<"_", "a">> }

Statements == { Rule("file", "p", <<>>),
                Rule("file", "&fsum{x}=1", <<"q">>),
                Rule("file", "&fsum{y}=2", <<>>) }

RECURSIVE SeqsUpTo(_, _)
SeqsUpTo(S, n) ==
    IF n = 0 THEN {<<>>}
    ELSE LET shorter == SeqsUpTo(S, n - 1)
         IN  shorter \cup {Append(q, x) : q \in shorter, x \in S}

Programs == SeqsUpTo(Statements, MaxStatements)

v == Function("v", <<>>)
w == Function("w", <<>>)
aux1 == Function(AUX, <<Number(1)>>)

Csp(arguments) == Function(CSP, arguments)

TheoryLists ==
    { <<>>,
      <<Csp(<<v, Number(5)>>)>>,
      <<Csp(<<v, Number(5)>>), Csp(<<aux1, Number(7)>>)>>,
      <<Csp(<<aux1, Number(7)>>), Csp(<<w, Number(-1)>>), Csp(<<v, Number(5)>>)>>,
      <<Csp(<<v, Number(5)>>), Csp(<<w>>), Csp(<<aux1, Number(7), Number(7)>>)>>,
      <<Csp(<<>>), Csp(<<aux1, Number(7)>>), Csp(<<v, Number(5), Number(5)>>), Csp(<<aux1>>)>>,
      <<Function("other", <<w, Number(7)>>), Csp(<<w, Number(7)>>)>> }

OtherShown ==
    { <<>>,
      <<Function("p", <<>>)>>,
      <<Function(DEF_, <<v, w>>), Function("q", <<v>>)>> }

\* the defined atoms of the variables in D, in a fixed order
DefinedAtoms(D) ==
    SelectSeq(<<Function(DEF_, <<aux1>>), Function(DEF_, <<v>>), Function(DEF_, <<w>>)>>,
              LAMBDA a : a.arguments[1] \in D)

\* a model: its true atoms, model.symbols(shown=True), model.symbols(theory=True)
MkModel(theory, D, other, showDefs) ==
    [atoms |-> {Function(DEF_, <<V>>) : V \in D} \cup {other[i] : i \in 1..Len(other)},
     shown |-> IF ~showDefs THEN other
               ELSE IF other = <<>> THEN DefinedAtoms(D)
               ELSE <<Head(other)>> \o DefinedAtoms(D) \o Tail(other),
     theory |-> theory]

Models ==
    { MkModel(t, D, o, sd) :
        t \in TheoryLists, D \in SUBSET {v, aux1} \cup {{w}, {v, w, aux1}},
        o \in OtherShown, sd \in BOOLEAN }

MainModels ==
    { MkModel(<<Csp(<<v, Number(5)>>), Csp(<<aux1, Number(7)>>)>>, {v}, <<>>, TRUE) }

----------------------------------------------------------------------------
(* State after FlingoApp.__init__ *)

Init ==
    /\ config = [print_aux |-> FALSE, print_trans |-> FALSE,
                 min_int |-> MIN_INT, max_int |-> MAX_INT, defined |-> DEF_]
    /\ stats = [rewrite_ast |-> 0, translate_program |-> 0,
                atoms_added |-> 0, rules_added |-> 0, variables_added |-> 0]
    /\ pc = "options"
    /\ optName = <<>>
    /\ optResult = "none"
    /\ input = <<>>
    /\ idx = 0
    /\ bld = <<>>
    /\ rules_to_add = <<>>
    /\ now = 0
    /\ start = 0
    /\ phases = <<>>
    /\ akku = <<>>
    /\ cur = <<>>
    /\ printed = <<>>
    /\ crashed = FALSE
    /\ seen = {}

rewriteVars == <<input, idx, bld, rules_to_add>>
solveVars == <<cur, printed, crashed, seen>>
optVars == <<optName, optResult>>

----------------------------------------------------------------------------
(* Command line options *)

\* --print-auxvars[=yes|no]
OptPrintAuxvars(value) ==
    /\ pc = "options"
    /\ config' = [config EXCEPT !.print_aux = value]
    /\ UNCHANGED <<stats, pc, optVars, rewriteVars, now, start, phases, akku, solveVars>>

\* --print-translation[=yes|no]
OptPrintTranslation(value) ==
    /\ pc = "options"
    /\ config' = [config EXCEPT !.print_trans = value]
    /\ UNCHANGED <<stats, pc, optVars, rewriteVars, now, start, phases, akku, solveVars>>

\* --defined-predicate=name: the run goes on only if the parser returns True
OptDefinedPredicate(name) ==
    /\ pc = "options"
    /\ LET r == ParseDefinedPredicate(name, config)
       IN  /\ config' = r.config
           /\ optName' = <<name>>
           /\ optResult' = r.result
           /\ pc' = IF r.result = "T" THEN "options" ELSE "failed"
    /\ UNCHANGED <<stats, rewriteVars, now, start, phases, akku, solveVars>>

----------------------------------------------------------------------------
(* FlingoApp.main *)

\* register and configure the theory; files defaults to ["-"]
MainStart ==
    /\ pc = "options"
    /\ pc' = "rewrite"
    /\ UNCHANGED <<config, stats, optVars, rewriteVars, now, start, phases, akku, solveVars>>

\* start = time.time(); the builder and the transformer are created
RewriteStart ==
    /\ pc = "rewrite"
    /\ \E t \in now..MaxClock : now' = t /\ start' = t
    /\ \E program \in Programs : input' = program
    /\ phases' = Append(phases, "rewrite")
    /\ pc' = "parse"
    /\ UNCHANGED <<config, stats, optVars, idx, bld, rules_to_add, akku, solveVars>>

\* mutant of VisitStatement: the synthesized rules are added at once
VisitStatement_EagerRules ==
    /\ pc = "parse"
    /\ idx < Len(input)
    /\ bld' = Append(bld, Visit(input[idx + 1]))
                  \o [i \in 1..Len(Synthesized(input[idx + 1])) |->
                        Rule("<string>:1:1", Synthesized(input[idx + 1])[i][1],
                             Synthesized(input[idx + 1])[i][2])]
    /\ rules_to_add' = rules_to_add
    /\ idx' = idx + 1
    /\ UNCHANGED <<config, stats, pc, optVars, input, now, start, phases, akku, solveVars>>

\* parse_files delivers the next statement: bld.add(hbt.visit(stm))
VisitStatement ==
    /\ pc = "parse"
    /\ idx < Len(input)
    /\ bld' = Append(bld, Visit(input[idx + 1]))
    /\ rules_to_add' = rules_to_add \o Synthesized(input[idx + 1])
    /\ idx' = idx + 1
    /\ UNCHANGED <<config, stats, pc, optVars, input, now, start, phases, akku, solveVars>>

\* for rule in hbt.rules_to_add: bld.add(Rule(loc, rule[0], rule[1]))
AddRules ==
    /\ pc = "parse"
    /\ idx = Len(input)
    /\ bld' = bld \o [i \in 1..Len(rules_to_add) |->
                        Rule("<string>:1:1", rules_to_add[i][1], rules_to_add[i][2])]
    /\ pc' = "rewritten"
    /\ UNCHANGED <<config, stats, optVars, input, idx, rules_to_add, now, start, phases,
                   akku, solveVars>>

\* end = time.time(); self.stats.rewrite_ast = end - start
RewriteEnd ==
    /\ pc = "rewritten"
    /\ \E t \in now..MaxClock :
          /\ now' = t
          /\ stats' = [stats EXCEPT !.rewrite_ast = t - start]
    /\ pc' = "ground"
    /\ UNCHANGED <<config, optVars, rewriteVars, start, phases, akku, solveVars>>

\* control.add("base", [], THEORY); control.ground([("base", [])])
Ground ==
    /\ pc = "ground"
    /\ phases' = Append(phases, "ground")
    /\ pc' = "translate"
    /\ UNCHANGED <<config, stats, optVars, rewriteVars, now, start, akku, solveVars>>

\* start = time.time(); translator = Translator(control, self.config, self.stats)
TranslateStart ==
    /\ pc = "translate"
    /\ \E t \in now..MaxClock : now' = t /\ start' = t
    /\ phases' = Append(phases, "translate")
    /\ pc' = "translating"
    /\ UNCHANGED <<config, stats, optVars, rewriteVars, akku, solveVars>>

\* translator.translate(control.theory_atoms): adds to the three counters
Translate ==
    /\ pc = "translating"
    /\ \E nv \in 0..MaxAdded, na \in 0..MaxAdded, nr \in 0..MaxAdded :
          stats' = [stats EXCEPT !.variables_added = @ + nv,
                                 !.atoms_added = @ + na,
                                 !.rules_added = @ + nr]
    /\ pc' = "translated"
    /\ UNCHANGED <<config, optVars, rewriteVars, now, start, phases, akku, solveVars>>

\* mutant of TranslateEnd: the duration is stored in the rewrite field
TranslateEnd_WrongField ==
    /\ pc = "translated"
    /\ \E t \in now..MaxClock :
          /\ now' = t
          /\ stats' = [stats EXCEPT !.rewrite_ast = t - start]
    /\ pc' = "prepare"
    /\ UNCHANGED <<config, optVars, rewriteVars, start, phases, akku, solveVars>>

\* end = time.time(); self.stats.translate_program = end - start
TranslateEnd ==
    /\ pc = "translated"
    /\ \E t \in now..MaxClock :
          /\ now' = t
          /\ stats' = [stats EXCEPT !.translate_program = t - start]
    /\ pc' = "prepare"
    /\ UNCHANGED <<config, optVars, rewriteVars, start, phases, akku, solveVars>>

\* self._theory.prepare(control); control.solve(...) is entered
SolveStart ==
    /\ pc = "prepare"
    /\ phases' = Append(phases, "solve")
    /\ pc' = "solve"
    /\ UNCHANGED <<config, stats, optVars, rewriteVars, now, start, akku, solveVars>>

----------------------------------------------------------------------------
(* Callbacks during solve *)

\* on_model: the model is handed to the theory
OnModel(model) ==
    /\ pc = "solve"
    /\ cur = <<>> \/ printed # <<>>
    /\ cur' = <<model>>
    /\ printed' = <<>>
    /\ UNCHANGED <<config, stats, pc, optVars, rewriteVars, now, start, phases, akku,
                   crashed, seen>>

\* what the output of one print_model call shows about each well-formed
\* valuation of the model
Observations(model, cfg, lines) ==
    { [var |-> a.arguments[1],
       defined |-> Function(cfg.defined, <<a.arguments[1]>>) \in model.atoms,
       primary |-> \E i \in 1..Len(lines[1].words) : lines[1].words[i] = ValEntry(a),
       aux |-> /\ Len(lines) > 1
               /\ \E i \in 1..Len(lines[2].words) : lines[2].words[i] = ValEntry(a)] :
      a \in {model.theory[i] : i \in {j \in 1..Len(model.theory) :
                 model.theory[j].name = CSP /\ Len(model.theory[j].arguments) = 2}} }

\* print_model
PrintModel ==
    /\ pc = "solve"
    /\ cur # <<>>
    /\ printed = <<>>
    /\ LET r == PrintModelResult(cur[1], config)
       IN  /\ printed' = r.lines
           /\ crashed' = r.raised
           /\ seen' = IF r.raised THEN seen
                      ELSE seen \cup Observations(cur[1], config, r.lines)
           /\ pc' = IF r.raised THEN "failed" ELSE pc
    /\ UNCHANGED <<config, stats, optVars, rewriteVars, now, start, phases, akku, cur>>

\* _on_statistics
OnStatistics ==
    /\ pc = "solve"
    /\ cur = <<>> \/ printed # <<>>
    /\ akku' = << [translation |-> [rewriting |-> stats.rewrite_ast,
                                    translation |-> stats.translate_program],
                   variables |-> stats.variables_added,
                   atoms |-> stats.atoms_added,
                   rules |-> stats.rules_added] >>
    /\ pc' = "done"
    /\ UNCHANGED <<config, stats, optVars, rewriteVars, now, start, phases, solveVars>>

----------------------------------------------------------------------------
(* Specifications *)

Next ==
    \/ \E value \in BOOLEAN : OptPrintAuxvars(value)
    \/ \E value \in BOOLEAN : OptPrintTranslation(value)
    \/ \E name \in Names : OptDefinedPredicate(name)
    \/ MainStart
    \/ RewriteStart
    \/ VisitStatement
    \/ AddRules
    \/ RewriteEnd
    \/ Ground
    \/ TranslateStart
    \/ Translate
    \/ TranslateEnd
    \/ SolveStart
    \/ \E model \in MainModels : OnModel(model)
    \/ PrintModel
    \/ OnStatistics

Spec == Init /\ [][Next]_vars

\* print_model over the larger set of models: the run is at solve, with
\* either setting of print-auxvars
InitPrint ==
    /\ config \in {[print_aux |-> flag, print_trans |-> FALSE,
                    min_int |-> MIN_INT, max_int |-> MAX_INT, defined |-> DEF_] :
                   flag \in BOOLEAN}
    /\ stats = [rewrite_ast |-> 0, translate_program |-> 0,
                atoms_added |-> 0, rules_added |-> 0, variables_added |-> 0]
    /\ pc = "solve"
    /\ optName = <<>>
    /\ optResult = "none"
    /\ input = <<>>
    /\ idx = 0
    /\ bld = <<>>
    /\ rules_to_add = <<>>
    /\ now = 0
    /\ start = 0
    /\ phases = <<"rewrite", "ground", "translate", "solve">>
    /\ akku = <<>>
    /\ cur = <<>>
    /\ printed = <<>>
    /\ crashed = FALSE
    /\ seen = {}

NextPrint ==
    \/ \E model \in Models : OnModel(model)
    \/ PrintModel

SpecPrint == InitPrint /\ [][NextPrint]_vars

----------------------------------------------------------------------------
(* Vocabulary of the properties *)

\* print_model has printed the lines of the model last reported
Printed == cur # <<>> /\ printed # <<>>

\* the constraint valuations of a model: theory atoms of the reserved name
\* with exactly two arguments
ValuationsOf(model) ==
    {model.theory[i] : i \in {j \in 1..Len(model.theory) :
        model.theory[j].name = CSP /\ Len(model.theory[j].arguments) = 2}}

\* theory atoms of the reserved name with another number of arguments
MalformedOf(model) ==
    {model.theory[i] : i \in {j \in 1..Len(model.theory) :
        model.theory[j].name = CSP /\ Len(model.theory[j].arguments) # 2}}

\* defined(V) is a true atom of the model
DefinedIn(model, V) == Function(config.defined, <<V>>) \in model.atoms

IsAuxiliary(V) == V.name = AUX

\* the text val(V,value) of a valuation
EntryOf(a) == "val(" \o Str(a.arguments[1]) \o "," \o Str(a.arguments[2]) \o ")"

\* word e is on printed line k
OnLine(k, e) ==
    /\ Len(printed) >= k
    /\ \E i \in 1..Len(printed[k].words) : printed[k].words[i] = e

\* the shown atoms that are (or are not) DefinedMarker atoms, in model order
Markers(model) ==
    SelectSeq(model.shown,
              LAMBDA a : a.name = config.defined /\ Len(a.arguments) = 1)

NonMarkers(model) ==
    SelectSeq(model.shown,
              LAMBDA a : ~(a.name = config.defined /\ Len(a.arguments) = 1))

Texts(symbols) == [i \in 1..Len(symbols) |-> Str(symbols[i])]

Entries(assignments) == [i \in 1..Len(assignments) |-> EntryOf(assignments[i])]

\* the valuations classified visible / hidden_auxiliary, in model order
VisibleOf(model) ==
    SelectSeq(model.theory,
              LAMBDA a : /\ a \in ValuationsOf(model)
                         /\ DefinedIn(model, a.arguments[1])
                         /\ ~IsAuxiliary(a.arguments[1]))

HiddenAuxiliaryOf(model) ==
    SelectSeq(model.theory,
              LAMBDA a : /\ a \in ValuationsOf(model)
                         /\ DefinedIn(model, a.arguments[1])
                         /\ IsAuxiliary(a.arguments[1]))

----------------------------------------------------------------------------
(* C1  Definedness gating: a valuation (V, value) of a model that has no    *)
(* true defined(V) atom appears on neither printed line, whatever the      *)
(* print-auxvars flag and whether or not V is auxiliary.                   *)
C1_DefinednessGating ==
    Printed =>
        \A a \in ValuationsOf(cur[1]) :
            ~DefinedIn(cur[1], a.arguments[1]) =>
                ~OnLine(1, EntryOf(a)) /\ ~OnLine(2, EntryOf(a))

(* C2  Auxiliary gating: a valuation whose variable is auxiliary and       *)
(* defined is never on the primary line, and is on the auxiliary line      *)
(* exactly when print-auxvars is enabled (so nowhere when it is disabled). *)
C2_AuxiliaryGating ==
    Printed =>
        \A a \in ValuationsOf(cur[1]) :
            (IsAuxiliary(a.arguments[1]) /\ DefinedIn(cur[1], a.arguments[1])) =>
                /\ ~OnLine(1, EntryOf(a))
                /\ (OnLine(2, EntryOf(a)) <=> config.print_aux)

C2_Witness ==
    /\ Printed
    /\ config.print_aux
    /\ \E a \in ValuationsOf(cur[1]) :
          /\ IsAuxiliary(a.arguments[1])
          /\ DefinedIn(cur[1], a.arguments[1])
          /\ OnLine(2, EntryOf(a))
    /\ \E a \in ValuationsOf(cur[1]) : OnLine(1, EntryOf(a))

(* C3  Primary line content: the first line is exactly the shown atoms     *)
(* that are not DefinedMarker atoms, in model order, followed by one       *)
(* val(V,value) per visible valuation (two arguments, defined(V) true, V   *)
(* not auxiliary), and nothing else.                                       *)
C3_PrimaryLine ==
    Printed =>
        /\ printed[1].words =
              Texts(NonMarkers(cur[1])) \o Entries(VisibleOf(cur[1]))
        /\ printed[1].text = Join(printed[1].words, " ")

C3_Witness ==
    /\ Printed
    /\ Len(NonMarkers(cur[1])) = 2
    /\ Len(Markers(cur[1])) > 0
    /\ Len(VisibleOf(cur[1])) = 2
    /\ Len(cur[1].theory) > 2
    /\ Len(printed[1].words) = 4

(* C4  Auxiliary line content: a second line is printed if and only if     *)
(* print-auxvars is enabled; when printed it is exactly the DefinedMarker  *)
(* atoms followed by one val(V,value) per hidden_auxiliary valuation       *)
(* (defined and auxiliary); with the flag disabled one line is printed.    *)
C4_AuxiliaryLine ==
    Printed =>
        /\ Len(printed) = (IF config.print_aux THEN 2 ELSE 1)
        /\ config.print_aux =>
              printed[2].words =
                  Texts(Markers(cur[1])) \o Entries(HiddenAuxiliaryOf(cur[1]))

(* C7  Arity rejection: a theory atom of the reserved name with a number   *)
(* of arguments other than 2 adds no val(...) entry to either line, does   *)
(* not make print_model fail, and leaves the lines what they are for the   *)
(* same model without the malformed atoms.                                 *)
WithoutMalformed(model) ==
    [model EXCEPT !.theory = SelectSeq(model.theory, LAMBDA a : a \notin MalformedOf(model))]

C7_ArityRejection ==
    /\ ~crashed
    /\ Printed =>
          /\ printed = PrintModelResult(WithoutMalformed(cur[1]), config).lines
          /\ \A k \in 1..Len(printed) :
                Cardinality({i \in 1..Len(printed[k].words) :
                    \E a \in ValuationsOf(cur[1]) : printed[k].words[i] = EntryOf(a)})
                <= Cardinality({i \in 1..Len(cur[1].theory) :
                                   cur[1].theory[i] \in ValuationsOf(cur[1])})

C7_Witness ==
    /\ Printed
    /\ \E a \in MalformedOf(cur[1]) : Len(a.arguments) = 0
    /\ \E a \in MalformedOf(cur[1]) : Len(a.arguments) = 1
    /\ \E a \in MalformedOf(cur[1]) :
          /\ Len(a.arguments) = 3
          /\ DefinedIn(cur[1], a.arguments[1])
    /\ \E a \in ValuationsOf(cur[1]) : OnLine(2, EntryOf(a))

(* C8  Classification stability, as claimed: across the models of one run  *)
(* a variable is always printed the same way (visible, auxiliary, or not   *)
(* printed).                                                               *)
C8_ClassNeverChanges ==
    \A o1 \in seen, o2 \in seen :
        o1.var = o2.var => (o1.primary = o2.primary /\ o1.aux = o2.aux)

(* C8  amended: every valuation is printed on at most one of the two lines *)
(* (exactly one class), and across the models of one run a variable is     *)
(* printed the same way in any two models that agree on defined(V).        *)
C8_ClassStableGivenDefined ==
    /\ \A o \in seen : ~(o.primary /\ o.aux)
    /\ \A o1 \in seen, o2 \in seen :
          (o1.var = o2.var /\ o1.defined = o2.defined) =>
              (o1.primary = o2.primary /\ o1.aux = o2.aux)

C8_Witness ==
    /\ config.print_aux
    /\ \E o1 \in seen, o2 \in seen :
          /\ o1.var = o2.var
          /\ o1.defined /\ ~o2.defined
          /\ o1.primary /\ ~o2.primary
    /\ \E o \in seen : o.aux

\* the scenario of C9: defined(v) is true and (v, 5) is the only valuation
ExampleScenario ==
    /\ Printed
    /\ DefinedIn(cur[1], v)
    /\ ValuationsOf(cur[1]) = {Csp(<<v, Number(5)>>)}

(* C9  Example scenario, as claimed: the primary line contains val(v,5);   *)
(* with print-auxvars off no second line is printed; with it on a second   *)
(* line is printed and it is empty.                                        *)
C9_ExampleSecondLineEmpty ==
    ExampleScenario =>
        /\ OnLine(1, "val(v,5)")
        /\ ~config.print_aux => Len(printed) = 1
        /\ config.print_aux => (Len(printed) = 2 /\ printed[2].text = "")

(* C9  amended: the primary line contains val(v,5); with print-auxvars off *)
(* no second line is printed; with it on a second line is printed that     *)
(* holds no val(...) entry, only the shown DefinedMarker atoms, so it is   *)
(* empty exactly when the model shows no DefinedMarker atom.               *)
C9_ExampleScenario ==
    ExampleScenario =>
        /\ OnLine(1, "val(v,5)")
        /\ ~config.print_aux => Len(printed) = 1
        /\ config.print_aux =>
              /\ Len(printed) = 2
              /\ printed[2].words = Texts(Markers(cur[1]))
              /\ (printed[2].text = "") <=> (Markers(cur[1]) = <<>>)

C9_Witness ==
    /\ ExampleScenario
    /\ config.print_aux
    /\ printed[1].text = "val(v,5)"
    /\ printed[2].text = "__def(v)"

----------------------------------------------------------------------------
(* C5  Configuration validation: parsing the defined-predicate values      *)
(* "ok_name" and "a1" returns True and sets config.defined to the name;    *)
(* parsing "Bad", "" and "1x" returns False, raises nothing, leaves        *)
(* config.defined as it was, and the run does not proceed.                 *)
AcceptedNames == { <<"o", "k", "_", "n", "a", "m", "e">>, <<"a", "1">> }

RejectedNames == { <<"B", "a", "d">>, <<>>, <<"1", "x">> }

C5_ConfigurationValidation ==
    [][(optName' # optName /\ optName' # <<>>) =>
          /\ optName'[1] \in AcceptedNames =>
                (optResult' = "T" /\ config'.defined = Join(optName'[1], ""))
          /\ optName'[1] \in RejectedNames =>
                (optResult' = "F" /\ config'.defined = config.defined /\ pc' = "failed")
      ]_vars

----------------------------------------------------------------------------
(* C6  Rewrite order preservation: the builder receives visit(s1) ..       *)
(* visit(sN) in source order, each once, then every queued rule of         *)
(* rules_to_add in synthesis order; no queued rule is added before all N   *)
(* statements have been visited and added, and the builder is complete     *)
(* before grounding starts.                                                *)
RECURSIVE SynthesizedBy(_)
SynthesizedBy(statements) ==
    IF statements = <<>> THEN <<>>
    ELSE Synthesized(Head(statements)) \o SynthesizedBy(Tail(statements))

Materialized(rules) ==
    [i \in 1..Len(rules) |-> Rule("<string>:1:1", rules[i][1], rules[i][2])]

C6_RewriteOrder ==
    /\ pc = "parse" =>
          /\ bld = [i \in 1..idx |-> Visit(input[i])]
          /\ rules_to_add = SynthesizedBy(SubSeq(input, 1, idx))
    /\ pc \in {"rewritten", "ground", "translate", "translating", "translated",
               "prepare", "solve", "done"} =>
          /\ idx = Len(input)
          /\ bld = [i \in 1..Len(input) |-> Visit(input[i])]
                       \o Materialized(SynthesizedBy(input))
    /\ pc \in {"options", "rewrite"} => bld = <<>>
    /\ (\E i \in 1..Len(phases) : phases[i] = "ground") =>
          pc \notin {"options", "rewrite", "parse", "rewritten"}

C6_Witness ==
    /\ pc = "solve"
    /\ Len(input) = 2
    /\ input[1] # input[2]
    /\ Len(rules_to_add) = 2
    /\ Len(bld) = 4
    /\ bld[3].head = "defined(y)"
    /\ bld[4].head = "defined(x)"

----------------------------------------------------------------------------
(* C10  Phase ordering: main runs rewrite, ground, translate, solve in     *)
(* that order, each once.  rewrite_ast is written only at the end of the   *)
(* rewrite, before grounding; the counters only during translation;        *)
(* translate_program only at the end of translation, before solving.  No   *)
(* callback writes the statistics, and the statistics callback runs after  *)
(* both phases and reports exactly the stored values.                      *)
PhaseOrder == <<"rewrite", "ground", "translate", "solve">>

C10_PhaseOrdering ==
    /\ [](/\ Len(phases) <= 4
          /\ phases = SubSeq(PhaseOrder, 1, Len(phases))
          /\ pc \in {"solve", "done"} => phases = PhaseOrder
          /\ akku # <<>> =>
                /\ phases = PhaseOrder
                /\ akku[1].translation.rewriting = stats.rewrite_ast
                /\ akku[1].translation.translation = stats.translate_program
                /\ akku[1].variables = stats.variables_added
                /\ akku[1].atoms = stats.atoms_added
                /\ akku[1].rules = stats.rules_added)
    /\ [][/\ stats'.rewrite_ast # stats.rewrite_ast =>
                (pc = "rewritten" /\ phases = <<"rewrite">>)
          /\ stats'.translate_program # stats.translate_program =>
                (pc = "translated" /\ phases = <<"rewrite", "ground", "translate">>)
          /\ (\/ stats'.variables_added # stats.variables_added
              \/ stats'.atoms_added # stats.atoms_added
              \/ stats'.rules_added # stats.rules_added) =>
                (pc = "translating" /\ phases = <<"rewrite", "ground", "translate">>)
          /\ akku' # akku => (akku = <<>> /\ stats' = stats)
         ]_vars

C10_Witness ==
    /\ pc = "done"
    /\ akku # <<>>
    /\ akku[1].translation.rewriting = 1
    /\ akku[1].translation.translation = 1
    /\ akku[1].variables = 1
    /\ akku[1].atoms = 1
    /\ akku[1].rules = 1
    /\ Cardinality(seen) > 1

====
